---- MODULE Spec2Model ----
(***************************************************************************)
(* A model of the MCP client of Flight-MCP-Client:                         *)
(*   - get_client_instance, the lock-guarded singleton factory,            *)
(*   - MCPClient (connect, process_query, get_available_tools),            *)
(*   - ServerConnection (connect_sse, list_tools, call_tool, cleanup),     *)
(*   - MessageProcessor.process_query, the model/tool loop.                *)
(*                                                                         *)
(* Callers are coroutines of one asyncio event loop: a step of the model   *)
(* is the code a coroutine runs between two suspension points (awaits of   *)
(* the transport, the session, the remote tool server).  The Anthropic     *)
(* call is synchronous.  The remote collaborators (SSE transport, MCP      *)
(* session, model gateway) either return or raise; each outcome is a       *)
(* nondeterministic choice.                                                *)
(***************************************************************************)
EXTENDS Integers, Sequences, FiniteSets, TLC

(* ------------------------------ bounds -------------------------------- *)
\* Callers of the concurrent specification (SpecFacade).  A caller is one
\* request of routes.py: get_client_instance, then process_query or
\* get_available_tools.
NumCallers == 2
\* Model calls in one process_query (the code has no cap).
MaxModelCalls == 3

Callers == 1..NumCallers

(* --------------------------- value domains ---------------------------- *)
None == "None"

\* connection_url arguments: absent, empty, or an endpoint.
Urls == {None, "", "http://localhost:8000/sse"}

Queries == {"q"}

\* Tools as the remote server lists them (tool.name, .description, .inputSchema).
RemoteTools ==
  << [name |-> "f", description |-> "df", inputSchema |-> "sf"],
     [name |-> "g", description |-> "dg", inputSchema |-> "sg"] >>

\* Catalogs a list_tools response may carry.
RemoteCatalogs == { SubSeq(RemoteTools, 1, 1), RemoteTools }

Whitespace == {" ", "\t", "\n"}

\* Content blocks before the gateway gives tool uses their ids.  Texts are
\* sequences of characters: one padded with whitespace, one of whitespace only.
Padded == [type |-> "text", text |-> <<" ", "a", " ">>]
Blank == [type |-> "text", text |-> <<" ">>]
ToolF == [type |-> "tool_use", name |-> "f", input |-> "x"]
ToolG == [type |-> "tool_use", name |-> "g", input |-> "y"]
Thinking == [type |-> "thinking"]

\* Responses of the model gateway in the sequential specification: empty,
\* text only, text and tool uses interleaved, two tool uses, and responses
\* with a block that is neither text nor tool_use.
ResponseShapes ==
  { <<>>, <<Padded>>, <<Blank>>, <<Padded, Blank>>, <<Blank, Padded>>,
    <<Thinking>>, <<Thinking, Padded>>,
    <<ToolF>>, <<Padded, ToolF>>, <<ToolG, Padded>>, <<ToolF, ToolG>>,
    <<Thinking, ToolF>> }

\* Responses of the model gateway in the concurrent specification: text only
\* (the tool loop is the sequential specification's).
ShortResponseShapes == { <<Padded>> }

\* Messages of exceptions raised by the collaborators.
GatewayErrors == {"overloaded"}
ToolErrors == {"boom"}
Payloads == {"[a.txt, b.txt]"}
NotConnected == "Not connected to an MCP server"

(* --------------------------- pure functions --------------------------- *)
\* str.strip(): drop leading and trailing whitespace.
RECURSIVE LStrip(_)
LStrip(s) ==
  IF s # <<>> /\ Head(s) \in Whitespace THEN LStrip(Tail(s)) ELSE s

RECURSIVE RStrip(_)
RStrip(s) ==
  IF s # <<>> /\ s[Len(s)] \in Whitespace THEN RStrip(SubSeq(s, 1, Len(s) - 1)) ELSE s

\* A strip that forgets the trailing whitespace.
StripLeadingOnly(s) == LStrip(s)

Strip(s) == RStrip(LStrip(s))

\* The gateway numbers the tool uses of a response: ids are unique per
\* invocation; `base` tool uses were emitted earlier in this query.
RECURSIVE WithIds(_, _)
WithIds(shapes, base) ==
  IF shapes = <<>> THEN <<>>
  ELSE LET b == Head(shapes)
       IN  IF b.type = "tool_use"
           THEN <<[type |-> "tool_use", id |-> base + 1, name |-> b.name, input |-> b.input]>>
                  \o WithIds(Tail(shapes), base + 1)
           ELSE <<b>> \o WithIds(Tail(shapes), base)

\* A loop without the 'if text_content' test.
RECURSIVE TextsOfUnfiltered(_)
TextsOfUnfiltered(content) ==
  IF content = <<>> THEN <<>>
  ELSE LET b == Head(content)
       IN  IF b.type = "text"
           THEN <<Strip(b.text)>> \o TextsOfUnfiltered(Tail(content))
           ELSE TextsOfUnfiltered(Tail(content))

\* processor.py 66-71: the stripped, non-empty texts of a response, in order.
RECURSIVE TextsOf(_)
TextsOf(content) ==
  IF content = <<>> THEN <<>>
  ELSE LET b == Head(content)
       IN  IF b.type = "text" /\ Strip(b.text) # <<>>
           THEN <<Strip(b.text)>> \o TextsOf(Tail(content))
           ELSE TextsOf(Tail(content))

IsToolUse(b) == b.type = "tool_use"

\* processor.py 73-74: the tool_use blocks of a response, in order.
ToolCallsOf(content) == SelectSeq(content, IsToolUse)

IsKept(b) == b.type \in {"text", "tool_use"}

\* processor.py 71, 75: the blocks kept for the assistant message.
AssistantContentOf(content) == SelectSeq(content, IsKept)

\* processor.py 77-81
ToolCallEntry(b) == [id |-> b.id, name |-> b.name, args |-> b.input]

RECURSIVE ToolCallEntries(_)
ToolCallEntries(calls) ==
  IF calls = <<>> THEN <<>>
  ELSE <<ToolCallEntry(Head(calls))>> \o ToolCallEntries(Tail(calls))

\* mcp_client.py 49-53
ToDescriptor(tool) ==
  [name |-> tool.name, description |-> tool.description, input_schema |-> tool.inputSchema]

RECURSIVE ToDescriptors(_)
ToDescriptors(ts) ==
  IF ts = <<>> THEN <<>> ELSE <<ToDescriptor(Head(ts))>> \o ToDescriptors(Tail(ts))

(* ------------------------------- state -------------------------------- *)
VARIABLES
  configOk,        \* validate_config() reports no issue (settings.py 20-33)
  lock,            \* _client_lock: 0 when free, else the caller holding it
  instance,        \* _client_instance: 0 for None, else the number of the MCPClient
  connection_url,  \* MCPClient.connection_url
  session,         \* ServerConnection.session: 0 for None, else the session's number
  exit_stack,      \* ServerConnection.exit_stack: number of contexts entered
  available_tools, \* MCPClient.available_tools
  sessionsMade,    \* ClientSession objects constructed so far
  sseCalls,        \* calls of ServerConnection.connect_sse so far
  listCalls,       \* remote session.list_tools() fetches so far
  catalogWrites,   \* assignments to MCPClient.available_tools by connect() so far
  lastTools,       \* the last catalog get_available_tools returned on a set session
  pc,              \* where each caller's coroutine is suspended
  ctx,             \* which function awaits connect(): "gci", "query" or "tools"
  client,          \* the instance get_client_instance returned to the caller
  atEntry,         \* what the caller saw when it entered its operation
  atRaise,         \* the singleton and the lock as a raising get_client_instance left them
  query,           \* the query of the caller's process_query
  tools,           \* the available_tools argument of MessageProcessor.process_query
  messages,        \* the conversation of MessageProcessor.process_query
  result,          \* the result of MessageProcessor.process_query
  pending,         \* tool_calls of the current turn not yet executed
  modelCalls,      \* calls of anthropic.messages.create in the current query
  responses,       \* contents of the model responses of the current query
  invoked,         \* the call_tool invocations of the current query and their outcomes
  lastTranscript,  \* the messages passed to the last anthropic.messages.create
  connectResult,   \* what the caller's last connect() returned, and the step that failed
  ret,             \* what the caller's last request returned (or raised)
  httpRequest,     \* the HTTP request the caller's route handler is serving
  httpResponse     \* the HTTP response the route handler returned

facade == <<configOk, instance, connection_url, session, exit_stack,
            available_tools, sessionsMade, sseCalls, listCalls, catalogWrites>>
procLocals == <<query, tools, messages, result, pending, modelCalls, responses, invoked,
                lastTranscript>>
ghost == <<lastTools, atEntry>>
http == <<httpRequest, httpResponse>>
vars == <<facade, lock, pc, ctx, client, ghost, atRaise, procLocals, ret,
          connectResult, http>>

EmptyResult == [text |-> <<>>, tool_calls |-> <<>>, tool_results |-> <<>>]

\* Placeholders before an operation is entered, has returned, or connect() ran.
NoEntry == [op |-> None]
NoReturn == [status |-> None]
NoRaise == [instance |-> -1, lock |-> -1]
NoResult == [value |-> None, failed |-> None]
NoRequest == [route |-> None]
NoResponse == [code |-> 0]
NoTools == [writes |-> -1]

Init ==
  /\ configOk \in BOOLEAN
  /\ lock = 0
  /\ instance = 0
  /\ connection_url = None
  /\ session = 0
  /\ exit_stack = 0
  /\ available_tools = <<>>
  /\ sessionsMade = 0
  /\ sseCalls = 0
  /\ listCalls = 0
  /\ catalogWrites = 0
  /\ lastTools = NoTools
  /\ pc = [p \in Callers |-> "idle"]
  /\ ctx = [p \in Callers |-> None]
  /\ client = [p \in Callers |-> 0]
  /\ atEntry = [p \in Callers |-> NoEntry]
  /\ atRaise = [p \in Callers |-> NoRaise]
  /\ query = [p \in Callers |-> None]
  /\ tools = [p \in Callers |-> <<>>]
  /\ messages = [p \in Callers |-> <<>>]
  /\ result = [p \in Callers |-> EmptyResult]
  /\ pending = [p \in Callers |-> <<>>]
  /\ modelCalls = [p \in Callers |-> 0]
  /\ responses = [p \in Callers |-> <<>>]
  /\ invoked = [p \in Callers |-> <<>>]
  /\ lastTranscript = [p \in Callers |-> <<>>]
  /\ connectResult = [p \in Callers |-> NoResult]
  /\ ret = [p \in Callers |-> NoReturn]
  /\ httpRequest = [p \in Callers |-> NoRequest]
  /\ httpResponse = [p \in Callers |-> NoResponse]

(* ------------------------- observations (ghost) ----------------------- *)
\* On entering process_query or get_available_tools: the operation, whether
\* connection.session was set, and what the connect() of the caller's
\* get_client_instance had returned.
Enter(p, op) ==
  atEntry' = [atEntry EXCEPT ![p] = [op |-> op, connected |-> session # 0,
                                     created |-> connectResult[p].value]]

\* The caller's request is over: its operation returned.
Return(p) ==
  /\ pc' = [pc EXCEPT ![p] = "returned"]
  /\ atRaise' = atRaise

\* The caller's request is over: get_client_instance raised.
Raise(p, inst, lk) ==
  /\ pc' = [pc EXCEPT ![p] = "returned"]
  /\ atRaise' = [atRaise EXCEPT ![p] = [instance |-> inst, lock |-> lk]]

(* ------------------------ MessageProcessor -------------------------- *)
\* processor.py 36-41: the conversation at the start.
InitialMessages(q) == << [role |-> "user", content |-> q] >>

\* processor.py 36-48
ProcessorStart(p, q, catalog) ==
  /\ query' = [query EXCEPT ![p] = q]
  /\ tools' = [tools EXCEPT ![p] = catalog]
  /\ messages' = [messages EXCEPT ![p] = InitialMessages(q)]
  /\ result' = [result EXCEPT ![p] = EmptyResult]
  /\ pending' = [pending EXCEPT ![p] = <<>>]
  /\ modelCalls' = [modelCalls EXCEPT ![p] = 0]
  /\ responses' = [responses EXCEPT ![p] = <<>>]
  /\ invoked' = [invoked EXCEPT ![p] = <<>>]
  /\ lastTranscript' = [lastTranscript EXCEPT ![p] = <<>>]

\* mcp_client.py 76-79 and 80-85: what MCPClient.process_query returns.
QuerySuccess(response) == [status |-> "success", response |-> response]
Failure(message) == [status |-> "error", error |-> message]

\* An exception that leaves the called function.
Raised(kind, message) == [status |-> "raised", kind |-> kind, error |-> message]

\* mcp_client.py 97-100
ToolsSuccess(catalog) == [status |-> "success", tools |-> catalog]

\* processor.py 85-91: the last assistant message is appended when it has content.
FinalMessages(msgs, kept) ==
  IF kept # <<>> THEN Append(msgs, [role |-> "assistant", content |-> kept]) ELSE msgs

\* A loop that puts the assistant message in front (messages.insert(0, ...)).
TurnMessagesInFront(msgs, kept) == <<[role |-> "assistant", content |-> kept]>> \o msgs

\* processor.py 94-97
TurnMessages(msgs, kept) == Append(msgs, [role |-> "assistant", content |-> kept])

\* processor.py 62-98 and mcp_client.py 75-79: one model response is processed;
\* with no tool call the loop ends and MCPClient.process_query returns.
ModelResponds(p, content) ==
  LET calls == ToolCallsOf(content)
      kept == AssistantContentOf(content)
      newResult == [result[p] EXCEPT !.text = @ \o TextsOf(content),
                                     !.tool_calls = @ \o ToolCallEntries(calls)]
  IN  /\ UNCHANGED <<facade, lock, ctx, client, ghost, query, tools, invoked, connectResult>>
      /\ lastTranscript' = [lastTranscript EXCEPT ![p] = messages[p]]
      /\ modelCalls' = [modelCalls EXCEPT ![p] = @ + 1]
      /\ responses' = [responses EXCEPT ![p] = Append(@, content)]
      /\ result' = [result EXCEPT ![p] = newResult]
      /\ IF calls = <<>>
         THEN /\ messages' = [messages EXCEPT ![p] = FinalMessages(@, kept)]
              /\ ret' = [ret EXCEPT ![p] = QuerySuccess(newResult)]
              /\ Return(p)
              /\ UNCHANGED pending
         ELSE /\ messages' = [messages EXCEPT ![p] = TurnMessages(@, kept)]
              /\ pending' = [pending EXCEPT ![p] = calls]
              /\ pc' = [pc EXCEPT ![p] = "tool"]
              /\ UNCHANGED <<ret, atRaise>>

\* A process_query without its except clause: the failure of the model call
\* leaves MCPClient.process_query as an exception.
ModelFailsRaises(p, message) ==
  /\ UNCHANGED <<facade, lock, ctx, client, ghost, query, tools, messages, result,
                 pending, responses, invoked, connectResult>>
  /\ lastTranscript' = [lastTranscript EXCEPT ![p] = messages[p]]
  /\ modelCalls' = [modelCalls EXCEPT ![p] = @ + 1]
  /\ ret' = [ret EXCEPT ![p] = Raised("Exception", message)]
  /\ Return(p)

\* processor.py 54-60 raising, caught by mcp_client.py 80-85.
ModelFails(p, message) ==
  /\ UNCHANGED <<facade, lock, ctx, client, ghost, query, tools, messages, result,
                 pending, responses, invoked, connectResult>>
  /\ lastTranscript' = [lastTranscript EXCEPT ![p] = messages[p]]
  /\ modelCalls' = [modelCalls EXCEPT ![p] = @ + 1]
  /\ ret' = [ret EXCEPT ![p] = Failure(message)]
  /\ Return(p)

\* processor.py 51-60: anthropic.messages.create with the whole conversation.
ModelCall(p, menu) ==
  /\ UNCHANGED http
  /\ pc[p] = "model"
  /\ modelCalls[p] < MaxModelCalls
  /\ \/ \E shapes \in menu : ModelResponds(p, WithIds(shapes, Len(result[p].tool_calls)))
     \/ \E e \in GatewayErrors : ModelFails(p, e)

\* processor.py 109-115
SuccessEntry(c, payload) ==
  [tool_use_id |-> c.id, name |-> c.name, args |-> c.input,
   result |-> payload, status |-> "success"]

\* processor.py 135-141
ErrorEntry(c, message) ==
  [tool_use_id |-> c.id, name |-> c.name, args |-> c.input,
   error |-> message, status |-> "error"]

\* processor.py 119-128
SuccessMessage(c, payload) ==
  [role |-> "user",
   content |-> << [type |-> "tool_result", tool_use_id |-> c.id, content |-> payload] >>]

\* processor.py 145-154
ErrorMessage(c, message) ==
  [role |-> "user",
   content |-> << [type |-> "tool_result", tool_use_id |-> c.id,
                   content |-> "Error: " \o message] >>]

\* connection.py 68-91: call_tool raises ConnectionError without a session,
\* otherwise returns the remote result or re-raises the remote failure.
ToolOutcomes(sess) ==
  IF sess = 0
  THEN { [ok |-> FALSE, value |-> NotConnected] }
  ELSE { [ok |-> TRUE, value |-> v] : v \in Payloads }
         \cup { [ok |-> FALSE, value |-> e] : e \in ToolErrors }

\* A loop that ends once the tool calls of a turn are done.
AfterToolStops(rest) == IF rest = <<>> THEN "returned" ELSE "tool"

\* processor.py 100, 155: after a tool call the loop takes the next pending
\* call, or calls the model again.
AfterTool(rest) == IF rest = <<>> THEN "model" ELSE "tool"

\* processor.py 104-128: the try branch.
ToolSucceeds(p, c, payload) ==
  /\ result' = [result EXCEPT ![p].tool_results = Append(@, SuccessEntry(c, payload))]
  /\ messages' = [messages EXCEPT ![p] = Append(@, SuccessMessage(c, payload))]
  /\ pending' = [pending EXCEPT ![p] = Tail(@)]
  /\ pc' = [pc EXCEPT ![p] = AfterTool(Tail(pending[p]))]
  /\ UNCHANGED <<ret, atRaise>>

\* An except branch that forgets result["tool_results"].append.
ToolFailsNoEntry(p, c, message) ==
  /\ messages' = [messages EXCEPT ![p] = Append(@, ErrorMessage(c, message))]
  /\ pending' = [pending EXCEPT ![p] = Tail(@)]
  /\ pc' = [pc EXCEPT ![p] = AfterTool(Tail(pending[p]))]
  /\ UNCHANGED <<result, ret, atRaise>>

\* An except branch that forgets messages.append.
ToolFailsNoMessage(p, c, message) ==
  /\ result' = [result EXCEPT ![p].tool_results = Append(@, ErrorEntry(c, message))]
  /\ pending' = [pending EXCEPT ![p] = Tail(@)]
  /\ pc' = [pc EXCEPT ![p] = AfterTool(Tail(pending[p]))]
  /\ UNCHANGED <<messages, ret, atRaise>>

\* A loop without the try: the tool's exception leaves the processor and
\* MCPClient.process_query turns it into the failure object.
ToolFailsAborts(p, c, message) ==
  /\ ret' = [ret EXCEPT ![p] = Failure(message)]
  /\ Return(p)
  /\ UNCHANGED <<messages, result, pending>>

\* processor.py 130-154: the except branch.
ToolFails(p, c, message) ==
  /\ result' = [result EXCEPT ![p].tool_results = Append(@, ErrorEntry(c, message))]
  /\ messages' = [messages EXCEPT ![p] = Append(@, ErrorMessage(c, message))]
  /\ pending' = [pending EXCEPT ![p] = Tail(@)]
  /\ pc' = [pc EXCEPT ![p] = AfterTool(Tail(pending[p]))]
  /\ UNCHANGED <<ret, atRaise>>

\* processor.py 100-154: one pending tool call is executed.
ToolCall(p) ==
  /\ UNCHANGED http
  /\ pc[p] = "tool"
  /\ LET c == Head(pending[p])
     IN  \E o \in ToolOutcomes(session) :
           /\ invoked' = [invoked EXCEPT ![p] =
                            Append(@, [id |-> c.id, name |-> c.name, args |-> c.input,
                                       ok |-> o.ok, value |-> o.value,
                                       round |-> modelCalls[p]])]
           /\ IF o.ok THEN ToolSucceeds(p, c, o.value) ELSE ToolFails(p, c, o.value)
  /\ UNCHANGED <<facade, lock, ctx, client, ghost, query, tools, modelCalls, responses,
                 lastTranscript, connectResult>>

(* ----------------------- MCPClient.connect --------------------------- *)
\* connection.py 93-100: cleanup().  aclose() unwinds every entered context;
\* when one of them raises on exit, session = None is skipped and the
\* exception is only logged.  With nothing entered aclose() cannot raise.
CloseOutcomes == IF exit_stack = 0 THEN {TRUE} ELSE BOOLEAN

CleanupSession(closeOk) == IF closeOk THEN 0 ELSE session

\* connect() has returned (True or False: no caller reads the value); the
\* awaiting function goes on without suspending:
\*   mcp_client.py 133-135  get_client_instance leaves the lock and returns,
\*   mcp_client.py 75       process_query calls the processor,
\*   mcp_client.py 97-100   get_available_tools returns the catalog.
ConnectReturns(p, value, step) ==
  /\ connectResult' = [connectResult EXCEPT ![p] =
                         [value |-> IF value THEN "True" ELSE "False", failed |-> step]]
  /\ CASE ctx[p] = "gci" ->
            /\ lock' = 0
            /\ client' = [client EXCEPT ![p] = instance]
            /\ pc' = [pc EXCEPT ![p] = "have_client"]
            /\ UNCHANGED <<atRaise, procLocals, ret>>
       [] ctx[p] = "query" ->
            /\ ProcessorStart(p, query[p], available_tools')
            /\ pc' = [pc EXCEPT ![p] = "model"]
            /\ UNCHANGED <<lock, client, atRaise, ret>>
       [] ctx[p] = "tools" ->
            /\ ret' = [ret EXCEPT ![p] = ToolsSuccess(available_tools')]
            /\ Return(p)
            /\ UNCHANGED <<lock, client, procLocals>>
  /\ UNCHANGED <<ctx, ghost>>

\* connection.py 44-47 and mcp_client.py 58-60: connect_sse cleans up and
\* raises ConnectionError; connect() logs it and returns False.
ConnectSseFails(p, step) ==
  /\ \E closeOk \in CloseOutcomes : session' = CleanupSession(closeOk)
  /\ exit_stack' = 0
  /\ UNCHANGED <<configOk, instance, connection_url, available_tools, sessionsMade,
                 sseCalls, listCalls, catalogWrites>>
  /\ ConnectReturns(p, FALSE, step)

\* connection.py 35: entering the SSE transport.
ConnectTransport(p) ==
  /\ UNCHANGED http
  /\ pc[p] = "sse_transport"
  /\ \/ /\ exit_stack' = exit_stack + 1
        /\ pc' = [pc EXCEPT ![p] = "sse_session"]
        /\ UNCHANGED <<configOk, instance, connection_url, session, available_tools,
                       sessionsMade, sseCalls, listCalls, catalogWrites,
                       lock, ctx, client, ghost, atRaise, procLocals, ret,
                       connectResult>>
     \/ ConnectSseFails(p, "transport")

\* connection.py 36: entering the ClientSession and storing it.
ConnectSession(p) ==
  /\ UNCHANGED http
  /\ pc[p] = "sse_session"
  /\ \/ /\ exit_stack' = exit_stack + 1
        /\ sessionsMade' = sessionsMade + 1
        /\ session' = sessionsMade + 1
        /\ pc' = [pc EXCEPT ![p] = "sse_init"]
        /\ UNCHANGED <<configOk, instance, connection_url, available_tools,
                       sseCalls, listCalls, catalogWrites,
                       lock, ctx, client, ghost, atRaise, procLocals, ret,
                       connectResult>>
     \/ ConnectSseFails(p, "session")

\* connection.py 39-42, then mcp_client.py 46-48 and connection.py 58-62:
\* initialize() returns, connect_sse returns True and list_tools() is called;
\* without a session it raises ConnectionError, which connect() swallows.
ConnectInitialize(p) ==
  /\ UNCHANGED http
  /\ pc[p] = "sse_init"
  /\ \/ /\ session # 0
        /\ listCalls' = listCalls + 1
        /\ pc' = [pc EXCEPT ![p] = "list_tools"]
        /\ UNCHANGED <<configOk, instance, connection_url, session, exit_stack,
                       available_tools, sessionsMade, sseCalls, catalogWrites,
                       lock, ctx, client, ghost, atRaise, procLocals, ret,
                       connectResult>>
     \/ /\ session = 0
        /\ UNCHANGED facade
        /\ ConnectReturns(p, FALSE, "list_tools")
     \/ ConnectSseFails(p, "initialize")

\* mcp_client.py 48-56 and 58-60: the catalog arrives and is stored, or the
\* fetch raises and connect() returns False, leaving the connection as it is.
ConnectListTools(p) ==
  /\ UNCHANGED http
  /\ pc[p] = "list_tools"
  /\ \/ \E remote \in RemoteCatalogs :
          /\ available_tools' = ToDescriptors(remote)
          /\ catalogWrites' = catalogWrites + 1
          /\ UNCHANGED <<configOk, instance, connection_url, session, exit_stack,
                         sessionsMade, sseCalls, listCalls>>
          /\ ConnectReturns(p, TRUE, None)
     \/ /\ UNCHANGED facade
        /\ ConnectReturns(p, FALSE, "list_tools")

\* mcp_client.py 42-44: connect() records the url and calls connect_sse, which
\* suspends on the transport.
BeginConnect(p, url, from) ==
  /\ connection_url' = url
  /\ sseCalls' = sseCalls + 1
  /\ ctx' = [ctx EXCEPT ![p] = from]
  /\ pc' = [pc EXCEPT ![p] = "sse_transport"]
  /\ connectResult' = [connectResult EXCEPT ![p] = NoResult]

(* ----------------------- get_client_instance -------------------------- *)
\* mcp_client.py 129-130 and 20-24: no url, or a configuration issue found by
\* MCPClient.__init__, raises ValueError before the singleton is assigned.
CreationError(url) ==
  IF url \in {None, ""} THEN "Connection URL is required for initial client creation"
  ELSE IF ~configOk THEN "Configuration issues"
  ELSE None

\* mcp_client.py 127: async with _client_lock releases the lock on a raise.
LockAfterRaise(p) == 0

\* A get_client_instance that builds a client on every call.
CreateAlways(inst) == TRUE

\* mcp_client.py 128: if _client_instance is None
MustCreate(inst) == inst = 0

\* mcp_client.py 116-135
GetClientInstance(p) ==
  /\ UNCHANGED http
  /\ pc[p] = "idle"
  /\ lock = 0
  /\ UNCHANGED <<ghost, procLocals>>
  /\ \E url \in Urls :
       IF ~MustCreate(instance)
       THEN /\ client' = [client EXCEPT ![p] = instance]
            /\ pc' = [pc EXCEPT ![p] = "have_client"]
            /\ UNCHANGED <<facade, lock, ctx, ret, atRaise, connectResult>>
       ELSE IF CreationError(url) # None
       THEN /\ UNCHANGED <<facade, client, ctx, connectResult>>
            /\ lock' = LockAfterRaise(p)
            /\ ret' = [ret EXCEPT ![p] = Raised("ValueError", CreationError(url))]
            /\ Raise(p, instance, LockAfterRaise(p))
       ELSE /\ lock' = p
            /\ instance' = instance + 1
            /\ BeginConnect(p, url, "gci")
            /\ UNCHANGED <<configOk, session, exit_stack, available_tools,
                           sessionsMade, listCalls, catalogWrites, client, ret, atRaise>>

(* ------------------ MCPClient.process_query / tools ------------------- *)
\* A facade that reconnects on every call.
AlwaysConnect(sess) == TRUE

\* mcp_client.py 72, 94: if not self.connection.session
NeedsConnect(sess) == sess = 0

\* mcp_client.py 62-75
ProcessQuery(p) ==
  /\ UNCHANGED http
  /\ pc[p] = "have_client"
  /\ Enter(p, "chat")
  /\ \E q \in Queries :
       IF NeedsConnect(session)
       THEN /\ BeginConnect(p, connection_url, "query")
            /\ query' = [query EXCEPT ![p] = q]
            /\ UNCHANGED <<configOk, instance, session, exit_stack, available_tools,
                           sessionsMade, listCalls, catalogWrites,
                           tools, messages, result, pending, modelCalls, responses, invoked,
                           lastTranscript>>
       ELSE /\ ProcessorStart(p, q, available_tools)
            /\ pc' = [pc EXCEPT ![p] = "model"]
            /\ ctx' = [ctx EXCEPT ![p] = None]
            /\ UNCHANGED <<facade, connectResult>>
  /\ UNCHANGED <<lock, client, atRaise, ret, lastTools>>

\* mcp_client.py 87-100
GetAvailableTools(p) ==
  /\ UNCHANGED http
  /\ pc[p] = "have_client"
  /\ Enter(p, "tools")
  /\ IF NeedsConnect(session)
     THEN /\ BeginConnect(p, connection_url, "tools")
          /\ UNCHANGED <<configOk, instance, session, exit_stack, available_tools,
                         sessionsMade, listCalls, catalogWrites,
                         atRaise, ret, lastTools>>
     ELSE /\ ret' = [ret EXCEPT ![p] = ToolsSuccess(available_tools)]
          /\ Return(p)
          /\ ctx' = [ctx EXCEPT ![p] = None]
          /\ lastTools' = [tools |-> available_tools, writes |-> catalogWrites]
          /\ UNCHANGED <<facade, connectResult>>
  /\ UNCHANGED <<lock, client, procLocals>>

(* ------------------------- MCPClient.cleanup -------------------------- *)
\* mcp_client.py 108-110 and connection.py 93-100: the caller closes the
\* client it was given, once its request is over, and may do so again.
\* aclose() empties the exit stack whether or not a context raised on exit.
Cleanup(p) ==
  /\ UNCHANGED http
  /\ pc[p] \in {"returned", "cleaned"}
  /\ client[p] # 0
  /\ \E closeOk \in CloseOutcomes : session' = CleanupSession(closeOk)
  /\ exit_stack' = 0
  /\ pc' = [pc EXCEPT ![p] = IF @ = "returned" THEN "cleaned" ELSE "cleaned_again"]
  /\ UNCHANGED <<configOk, instance, connection_url, available_tools, sessionsMade,
                 sseCalls, listCalls, catalogWrites,
                 lock, ctx, client, ghost, atRaise, procLocals, ret, connectResult>>

(* ------------------------------ routes.py ----------------------------- *)
\* routes.py 10-15
HTTP_OK == 200
HTTP_BAD_REQUEST == 400
HTTP_UNSUPPORTED_MEDIA_TYPE == 415
HTTP_INTERNAL_SERVER_ERROR == 500

\* The requests a route may receive: whether the content type is JSON and
\* whether the body holds a prompt.
ChatRequests ==
  { [route |-> "chat", json |-> j, prompt |-> pr] : j, pr \in BOOLEAN }
ToolsRequest == [route |-> "tools", json |-> FALSE, prompt |-> FALSE]

\* routes.py 29-38: validate_json(['prompt']) raises ValueError with this
\* message, or returns the data (None here).
ValidationError(req) ==
  IF ~req.json THEN "Content-Type must be application/json"
  ELSE IF ~req.prompt THEN "Missing fields in request body: prompt"
  ELSE None

\* routes.py 41-45
error_response(message, status_code) ==
  [code |-> status_code, body |-> [status |-> "error", error |-> message]]

\* routes.py 60-62 and 73-75: process_chat validates the request; the
\* ValueError of validate_json is answered at once, otherwise the handler
\* goes on to get_client_instance.
ProcessChat(p) ==
  /\ pc[p] = "idle"
  /\ httpRequest[p] = NoRequest
  /\ \E req \in ChatRequests :
       /\ httpRequest' = [httpRequest EXCEPT ![p] = req]
       /\ IF ValidationError(req) # None
          THEN /\ httpResponse' = [httpResponse EXCEPT ![p] =
                                     error_response(ValidationError(req), HTTP_BAD_REQUEST)]
               /\ pc' = [pc EXCEPT ![p] = "responded"]
          ELSE UNCHANGED <<httpResponse, pc>>
  /\ UNCHANGED <<facade, lock, ctx, client, ghost, atRaise, procLocals, ret,
                 connectResult>>

\* routes.py 83-87: get_tools goes straight to get_client_instance.
GetTools(p) ==
  /\ pc[p] = "idle"
  /\ httpRequest[p] = NoRequest
  /\ httpRequest' = [httpRequest EXCEPT ![p] = ToolsRequest]
  /\ UNCHANGED <<facade, lock, pc, ctx, client, ghost, atRaise, procLocals, ret,
                 connectResult, httpResponse>>

\* routes.py 66-79: what process_chat answers once get_client_instance raised
\* or process_query returned.
ChatAnswer(outcome) ==
  IF outcome.status = "raised"
  THEN IF outcome.kind = "ValueError"
       THEN error_response(outcome.error, HTTP_BAD_REQUEST)
       ELSE error_response("Internal server error", HTTP_INTERNAL_SERVER_ERROR)
  ELSE [code |-> HTTP_OK, body |-> [status |-> "success", data |-> outcome]]

\* routes.py 88-98
ToolsAnswer(outcome) ==
  IF outcome.status = "raised"
  THEN error_response("Could not retrieve tools", HTTP_INTERNAL_SERVER_ERROR)
  ELSE [code |-> HTTP_OK, body |-> [status |-> "success", tools |-> outcome]]

\* The handler's own calls are over: get_client_instance raised, or the
\* operation of the route returned.
HandlerDone(p, route, op) ==
  /\ pc[p] = "returned"
  /\ httpRequest[p].route = route
  /\ ret[p].status = "raised" \/ atEntry[p].op = op

\* routes.py 68-79
ChatResponds(p) ==
  /\ HandlerDone(p, "chat", "chat")
  /\ httpResponse' = [httpResponse EXCEPT ![p] = ChatAnswer(ret[p])]
  /\ pc' = [pc EXCEPT ![p] = "responded"]
  /\ UNCHANGED <<facade, lock, ctx, client, ghost, atRaise, procLocals, ret,
                 connectResult, httpRequest>>

\* routes.py 91-98
ToolsResponds(p) ==
  /\ HandlerDone(p, "tools", "tools")
  /\ httpResponse' = [httpResponse EXCEPT ![p] = ToolsAnswer(ret[p])]
  /\ pc' = [pc EXCEPT ![p] = "responded"]
  /\ UNCHANGED <<facade, lock, ctx, client, ghost, atRaise, procLocals, ret,
                 connectResult, httpRequest>>

(* --------------------------- specifications --------------------------- *)
\* One caller, every response of the model gateway: the query loop.
Next ==
  \E p \in {1} :
    \/ GetClientInstance(p)
    \/ ProcessQuery(p)
    \/ GetAvailableTools(p)
    \/ ConnectTransport(p)
    \/ ConnectSession(p)
    \/ ConnectInitialize(p)
    \/ ConnectListTools(p)
    \/ ModelCall(p, ResponseShapes)
    \/ ToolCall(p)

Spec == Init /\ [][Next]_vars

\* Concurrent callers, short responses of the model gateway: the facade.
NextFacade ==
  \E p \in Callers :
    \/ GetClientInstance(p)
    \/ ProcessQuery(p)
    \/ GetAvailableTools(p)
    \/ ConnectTransport(p)
    \/ ConnectSession(p)
    \/ ConnectInitialize(p)
    \/ ConnectListTools(p)
    \/ ModelCall(p, ShortResponseShapes)

SpecFacade == Init /\ [][NextFacade]_vars

\* One caller that closes its client after its request.
NextCleanup ==
  \E p \in {1} :
    \/ GetClientInstance(p)
    \/ ProcessQuery(p)
    \/ GetAvailableTools(p)
    \/ ConnectTransport(p)
    \/ ConnectSession(p)
    \/ ConnectInitialize(p)
    \/ ConnectListTools(p)
    \/ ModelCall(p, ShortResponseShapes)
    \/ Cleanup(p)

SpecCleanup == Init /\ [][NextCleanup]_vars

\* One caller behind the HTTP routes.
NextRoutes ==
  \E p \in {1} :
    \/ ProcessChat(p)
    \/ GetTools(p)
    \/ GetClientInstance(p)
    \/ ProcessQuery(p)
    \/ GetAvailableTools(p)
    \/ ConnectTransport(p)
    \/ ConnectSession(p)
    \/ ConnectInitialize(p)
    \/ ConnectListTools(p)
    \/ ModelCall(p, ShortResponseShapes)
    \/ ChatResponds(p)
    \/ ToolsResponds(p)

SpecRoutes == Init /\ [][NextRoutes]_vars

\* A model gateway that always answers, and that stops asking for tools at
\* the last round explored.
Settling(shapes) == ToolCallsOf(WithIds(shapes, 0)) = <<>>

AnsweringShapes(calls) ==
  IF calls + 1 < MaxModelCalls THEN ResponseShapes
  ELSE { shapes \in ResponseShapes : Settling(shapes) }

\* processor.py 51-60: a model call that returns.
ModelAnswers(p) ==
  /\ UNCHANGED http
  /\ pc[p] = "model"
  /\ modelCalls[p] < MaxModelCalls
  /\ \E shapes \in AnsweringShapes(modelCalls[p]) :
       ModelResponds(p, WithIds(shapes, Len(result[p].tool_calls)))

\* One caller under that gateway; the event loop resumes a coroutine that
\* can go on, so a step that stays possible is eventually taken.
NextAnswering ==
  \E p \in {1} :
    \/ GetClientInstance(p)
    \/ ProcessQuery(p)
    \/ GetAvailableTools(p)
    \/ ConnectTransport(p)
    \/ ConnectSession(p)
    \/ ConnectInitialize(p)
    \/ ConnectListTools(p)
    \/ ModelAnswers(p)
    \/ ToolCall(p)

SpecAnswering == Init /\ [][NextAnswering]_vars /\ WF_vars(NextAnswering)

(* ------------------------- claims: the query loop --------------------- *)
\* The positions of the characters of s that are not whitespace.
Inked(s) == { i \in 1..Len(s) : s[i] \notin Whitespace }

\* s without its surrounding whitespace: from its first to its last
\* non-whitespace character.
Trimmed(s) ==
  IF Inked(s) = {} THEN <<>>
  ELSE SubSeq(s, CHOOSE i \in Inked(s) : \A j \in Inked(s) : i <= j,
                 CHOOSE i \in Inked(s) : \A j \in Inked(s) : j <= i)

\* The trimmed, non-empty texts of the text blocks of a response, in order.
RECURSIVE ExpectedTexts(_)
ExpectedTexts(content) ==
  IF content = <<>> THEN <<>>
  ELSE (IF Head(content).type = "text" /\ Trimmed(Head(content).text) # <<>>
        THEN <<Trimmed(Head(content).text)>> ELSE <<>>)
       \o ExpectedTexts(Tail(content))

\* The ToolUseBlocks the model emitted, within each response and across them.
RECURSIVE Emitted(_)
Emitted(resps) ==
  IF resps = <<>> THEN <<>>
  ELSE Emitted(SubSeq(resps, 1, Len(resps) - 1))
         \o SelectSeq(resps[Len(resps)], IsToolUse)

\* MessageProcessor.process_query of caller p has returned normally.
ReturnedNormally(p) ==
  pc[p] = "returned" /\ atEntry[p].op = "chat" /\ ret[p].status = "success"

\* C1: when process_query returns normally, tool_calls and tool_results have
\* the same length, tool_results[i] carries the id, name and args of
\* tool_calls[i], and both follow the order in which the model emitted the
\* ToolUseBlocks, within each turn and across turns.
C1_ResultsFollowCalls ==
  \A p \in Callers :
    ReturnedNormally(p) =>
      LET r == ret[p].response
          em == Emitted(responses[p])
      IN  /\ Len(r.tool_calls) = Len(em)
          /\ Len(r.tool_results) = Len(em)
          /\ \A i \in 1..Len(em) :
               /\ r.tool_calls[i].id = em[i].id
               /\ r.tool_calls[i].name = em[i].name
               /\ r.tool_calls[i].args = em[i].input
               /\ i <= Len(r.tool_results)
               /\ r.tool_results[i].tool_use_id = r.tool_calls[i].id
               /\ r.tool_results[i].name = r.tool_calls[i].name
               /\ r.tool_results[i].args = r.tool_calls[i].args

\* Two tool turns, the first with two calls of different tools, one call
\* failed and one succeeded, then a normal return.
C1_Witness ==
  \E p \in Callers :
    /\ ReturnedNormally(p)
    /\ Len(responses[p]) = 3
    /\ Len(SelectSeq(responses[p][1], IsToolUse)) = 2
    /\ Len(ret[p].response.tool_results) = 3
    /\ ret[p].response.tool_results[1].name # ret[p].response.tool_results[2].name
    /\ ret[p].response.tool_results[1].status = "error"
    /\ ret[p].response.tool_results[2].status = "success"

\* C2: when the first model response holds no ToolUseBlock, process_query has
\* made exactly one model call and returned the trimmed, non-empty texts of
\* that response in order, with no tool call, no tool result and no
\* call_tool invocation.
C2_NoToolQuery ==
  \A p \in Callers :
    (Len(responses[p]) >= 1 /\ SelectSeq(responses[p][1], IsToolUse) = <<>>) =>
      /\ pc[p] = "returned"
      /\ modelCalls[p] = 1
      /\ ret[p] = [status |-> "success",
                   response |-> [text |-> ExpectedTexts(responses[p][1]),
                                 tool_calls |-> <<>>, tool_results |-> <<>>]]
      /\ invoked[p] = <<>>

\* A padded text and a blank one in a single response without tools.
C2_Witness ==
  \E p \in Callers :
    /\ pc[p] = "returned"
    /\ responses[p] = << << [type |-> "text", text |-> <<" ", "a", " ">>],
                            [type |-> "text", text |-> <<" ">>] >> >>
    /\ ret[p].response.text = << <<"a">> >>

\* The tool_result message the loop appends for a failed invocation v.
IsErrorBlock(m, v) ==
  /\ m.role = "user"
  /\ Len(m.content) = 1
  /\ m.content[1].type = "tool_result"
  /\ m.content[1].tool_use_id = v.id
  /\ m.content[1].content = "Error: " \o v.value

HasErrorBlock(msgs, v) == \E k \in 2..Len(msgs) : IsErrorBlock(msgs[k], v)

\* C3: a failed call_tool does not abort process_query: tool_results gets an
\* entry with status "error" and the exception message, the conversation gets
\* a tool_result block with the same id and "Error: <message>", the other
\* calls of the turn are still invoked, and the model is called again with a
\* transcript that holds the error block.
C3_ToolFailureContinues ==
  \A p \in Callers :
    \A i \in 1..Len(invoked[p]) :
      LET v == invoked[p][i]
          turn == Emitted(SubSeq(responses[p], 1, v.round))
      IN  ~v.ok =>
            /\ Len(result[p].tool_results) >= i
            /\ result[p].tool_results[i] =
                 [tool_use_id |-> v.id, name |-> v.name, args |-> v.args,
                  error |-> v.value, status |-> "error"]
            /\ HasErrorBlock(messages[p], v)
            /\ pc[p] \in {"tool", "model", "returned"}
            /\ pc[p] = "returned" => modelCalls[p] > v.round
            /\ pc[p] \in {"model", "returned"} =>
                 /\ Len(invoked[p]) >= Len(turn)
                 /\ \A j \in 1..Len(turn) : invoked[p][j].id = turn[j].id
            /\ modelCalls[p] > v.round => HasErrorBlock(lastTranscript[p], v)

\* The first of two calls of a turn failed, the second was invoked, and the
\* model was called again and answered.
C3_Witness ==
  \E p \in Callers :
    /\ ReturnedNormally(p)
    /\ Len(invoked[p]) = 2
    /\ ~invoked[p][1].ok
    /\ invoked[p][2].round = invoked[p][1].round
    /\ HasErrorBlock(lastTranscript[p], invoked[p][1])

\* The tool_result blocks of message m that carry tool_use_id id.
ResultBlocksFor(m, id) ==
  { n \in 1..Len(m.content) :
      m.content[n].type = "tool_result" /\ m.content[n].tool_use_id = id }

IsAssistant(m) == m.role = "assistant"

\* C4: when the model is called again, every ToolUseBlock of the last
\* assistant message has exactly one ToolResultBlock with its id, appended
\* after that message; and every ToolResultBlock of the transcript carries
\* the id of a ToolUseBlock of an earlier assistant message.
C4_EveryToolUseAnswered ==
  \A p \in Callers :
    (pc[p] = "model" /\ modelCalls[p] >= 1) =>
      LET msgs == messages[p]
          k == CHOOSE n \in 1..Len(msgs) :
                 IsAssistant(msgs[n]) /\ \A m \in (n + 1)..Len(msgs) : ~IsAssistant(msgs[m])
          uses == SelectSeq(msgs[k].content, IsToolUse)
      IN  /\ \E n \in 1..Len(msgs) : IsAssistant(msgs[n])
          /\ \A j \in 1..Len(uses) :
               /\ Cardinality({ m \in 2..Len(msgs) :
                                  ~IsAssistant(msgs[m])
                                  /\ ResultBlocksFor(msgs[m], uses[j].id) # {} }) = 1
               /\ \E m \in (k + 1)..Len(msgs) :
                    Cardinality(ResultBlocksFor(msgs[m], uses[j].id)) = 1
          /\ \A m \in 2..Len(msgs) :
               ~IsAssistant(msgs[m]) =>
                 \A n \in 1..Len(msgs[m].content) :
                   msgs[m].content[n].type = "tool_result" =>
                     \E a \in 1..(m - 1) :
                       /\ IsAssistant(msgs[a])
                       /\ \E u \in 1..Len(msgs[a].content) :
                            /\ msgs[a].content[u].type = "tool_use"
                            /\ msgs[a].content[u].id = msgs[m].content[n].tool_use_id

\* The third model call is due after two tool turns, the last one with two
\* calls of which one failed.
C4_Witness ==
  \E p \in Callers :
    /\ pc[p] = "model"
    /\ modelCalls[p] = 2
    /\ Len(invoked[p]) = 3
    /\ invoked[p][2].round = 2
    /\ ~invoked[p][3].ok

\* C5: MCPClient.process_query never raises; a failed model call, on the
\* first or on a later round, ends the query at once with the failure object
\* holding the exception message, and is not retried.
C5_GatewayFailureReturned ==
  \A p \in Callers :
    /\ (pc[p] = "returned" /\ atEntry[p].op = "chat") =>
         ret[p].status \in {"success", "error"}
    /\ modelCalls[p] # Len(responses[p]) =>
         /\ modelCalls[p] = Len(responses[p]) + 1
         /\ pc[p] = "returned"
         /\ \E e \in GatewayErrors : ret[p] = [status |-> "error", error |-> e]

\* The model call of the third round failed.
C5_Witness ==
  \E p \in Callers :
    /\ pc[p] = "returned"
    /\ modelCalls[p] = 3
    /\ Len(responses[p]) = 2
    /\ ret[p].status = "error"

(* ------------------------ claims: the rounds of the loop -------------- *)
\* The last response of the model in the caller's query.
LastResponse(p) == responses[p][Len(responses[p])]

\* The tool invocations made for the r-th response of the caller's query.
InvokedIn(p, r) == SelectSeq(invoked[p], LAMBDA i : i.round = r)

\* C11: process_query has returned normally only when the last response held
\* no ToolUseBlock; while the last response holds some, the query has not
\* returned: its calls are being executed, or all of them were and the next
\* model call is due, whatever the number of rounds so far.
C11_LoopEndsOnlyWithoutToolUse ==
  \A p \in Callers :
    /\ ReturnedNormally(p) =>
         /\ modelCalls[p] >= 1
         /\ Len(responses[p]) = modelCalls[p]
         /\ ToolCallsOf(LastResponse(p)) = <<>>
    /\ (modelCalls[p] >= 1 /\ Len(responses[p]) = modelCalls[p]
          /\ ToolCallsOf(LastResponse(p)) # <<>>) =>
         LET calls == ToolCallsOf(LastResponse(p))
             made == InvokedIn(p, modelCalls[p])
         IN  /\ pc[p] \in {"tool", "model"}
             /\ Len(made) + Len(pending[p]) = Len(calls)
             /\ \A k \in 1..Len(made) : made[k].id = calls[k].id
             /\ pending[p] = SubSeq(calls, Len(made) + 1, Len(calls))
             /\ pc[p] = "model" <=> pending[p] = <<>>

\* Every response so far asked for tools, and after the last permitted round
\* the loop is again about to call the model.
C11_Witness ==
  \E p \in Callers :
    /\ pc[p] = "model"
    /\ modelCalls[p] = MaxModelCalls
    /\ Len(invoked[p]) > MaxModelCalls

\* C12: when every model call and every tool call returns and the model
\* ends by asking for no tool, a query that entered the processor eventually
\* returns its result, whatever tool invocations failed on the way.
C12_QueryEventuallyReturns ==
  \A p \in Callers : (pc[p] \in {"model", "tool"}) ~> ReturnedNormally(p)

\* The query returned its result after two rounds of tool calls that all failed.
C12_Witness ==
  \E p \in Callers :
    /\ ReturnedNormally(p)
    /\ modelCalls[p] = 3
    /\ Len(invoked[p]) >= 2
    /\ \A k \in 1..Len(invoked[p]) : ~invoked[p][k].ok

(* ------------------------ claims: the conversation ------------------- *)
\* The assistant messages of a conversation, in order.
AssistantMessages(msgs) == SelectSeq(msgs, IsAssistant)

\* C16: the conversation holds one assistant message per model response
\* processed, the final one and an empty one included, and the content of
\* the k-th is the k-th response, block for block.
C16_OneAssistantMessagePerResponse ==
  \A p \in Callers :
    LET am == AssistantMessages(messages[p])
    IN  /\ Len(am) = Len(responses[p])
        /\ \A k \in 1..Len(am) : am[k].content = responses[p][k]

\* C17: every ToolResultBlock of the conversation carries is_error, true
\* when the invocation it answers failed and false when it succeeded.
C17_ResultBlocksFlagged ==
  \A p \in Callers :
    \A m \in 2..Len(messages[p]) :
      ~IsAssistant(messages[p][m]) =>
        \A n \in 1..Len(messages[p][m].content) :
          LET b == messages[p][m].content[n]
          IN  b.type = "tool_result" =>
                /\ "is_error" \in DOMAIN b
                /\ b.is_error <=>
                     \E k \in 1..Len(invoked[p]) :
                       invoked[p][k].id = b.tool_use_id /\ ~invoked[p][k].ok

\* The expected texts of all the responses, in order of arrival.
RECURSIVE AllExpectedTexts(_)
AllExpectedTexts(resps) ==
  IF resps = <<>> THEN <<>>
  ELSE ExpectedTexts(Head(resps)) \o AllExpectedTexts(Tail(resps))

IsText(b) == b.type = "text"

\* The text blocks of a content list, as they are.
TextBlocks(content) == SelectSeq(content, IsText)

\* C18: result.text is, in order of arrival over all the responses of all
\* rounds, the trimmed texts of the text blocks that are not blank; and the
\* text blocks of a response, the blank ones included, are in the assistant
\* message appended for it with their text untrimmed.
C18_TextIsTrimmedNonEmpty ==
  \A p \in Callers :
    /\ result[p].text = AllExpectedTexts(responses[p])
    /\ (responses[p] # <<>> /\ TextBlocks(LastResponse(p)) # <<>>) =>
         LET am == AssistantMessages(messages[p])
         IN  /\ am # <<>>
             /\ TextBlocks(am[Len(am)].content) = TextBlocks(LastResponse(p))

\* The query returned after a tool round whose response held a text, and a
\* last response holding a blank text and a padded one.
C18_Witness ==
  \E p \in Callers :
    /\ ReturnedNormally(p)
    /\ Len(responses[p]) = 2
    /\ TextBlocks(responses[p][1]) # <<>>
    /\ \E n \in 1..Len(responses[p][2]) : responses[p][2][n] = Blank
    /\ Len(TextBlocks(responses[p][2])) = 2
    /\ Len(result[p].text) = 2

\* s is t, or t cut after some message.
IsPrefix(s, t) == Len(s) <= Len(t) /\ SubSeq(t, 1, Len(s)) = s

\* C21: at every model call the transcript passed starts with the user
\* message holding the query and ends with a user message, holds no two
\* adjacent assistant messages, and extends the transcript of the previous
\* model call of the query by appended messages only; at the first model
\* call of a query it holds the query's user message and nothing else.
C21_TranscriptShape ==
  [][ \A p \in Callers :
        modelCalls'[p] = modelCalls[p] + 1 =>
          LET t == lastTranscript'[p]
          IN  /\ t # <<>>
              /\ t[1].role = "user"
              /\ t[1].content = query[p]
              /\ t[Len(t)].role = "user"
              /\ \A m \in 1..(Len(t) - 1) :
                   ~(IsAssistant(t[m]) /\ IsAssistant(t[m + 1]))
              /\ IF modelCalls[p] = 0
                 THEN t = << [role |-> "user", content |-> query[p]] >>
                 ELSE /\ IsPrefix(lastTranscript[p], t)
                      /\ Len(t) > Len(lastTranscript[p])
    ]_vars

\* The third model call of a query got a transcript of two tool rounds, the
\* second call's transcript being a shorter one.
C21_Witness ==
  \E p \in Callers :
    /\ modelCalls[p] = 3
    /\ Len(lastTranscript[p]) >= 5
    /\ Len(AssistantMessages(lastTranscript[p])) = 2
    /\ lastTranscript[p][1].content = query[p]

(* --------------------------- claims: cleanup -------------------------- *)
\* C13: cleanup returns without raising, and once it has returned, the
\* first time or again, the connection holds no session and no entered
\* context (so that a second call finds and leaves what the first left),
\* also when closing the contexts failed.
C13_CleanupClearsSession ==
  \A p \in Callers :
    pc[p] \in {"cleaned", "cleaned_again"} => (session = 0 /\ exit_stack = 0)

(* --------------------------- claims: the routes ----------------------- *)
\* The handler answered without get_client_instance having returned a
\* client and without an operation of the facade having been entered.
FacadeNotInvoked(p) == client[p] = 0 /\ atEntry[p].op = None

\* C14: a POST /chat whose content type is not JSON has been answered with
\* 415, one with a JSON body lacking the prompt with 400 and the error
\* "Missing fields in request body: prompt", in both cases without the
\* facade having been invoked.
C14_ChatValidation ==
  \A p \in Callers :
    httpRequest[p].route = "chat" =>
      /\ ~httpRequest[p].json =>
           /\ pc[p] = "responded"
           /\ httpResponse[p].code = HTTP_UNSUPPORTED_MEDIA_TYPE
           /\ FacadeNotInvoked(p)
      /\ (httpRequest[p].json /\ ~httpRequest[p].prompt) =>
           /\ pc[p] = "responded"
           /\ httpResponse[p] =
                error_response("Missing fields in request body: prompt", HTTP_BAD_REQUEST)
           /\ FacadeNotInvoked(p)

\* C15: a POST /chat with a valid prompt is answered 200 with status success
\* and the query result (text, tool_calls, tool_results) as data only when
\* the query succeeded, and 500 "Internal server error" when it failed.
C15_ChatOutcome ==
  \A p \in Callers :
    (httpRequest[p].route = "chat" /\ pc[p] = "responded"
       /\ ValidationError(httpRequest[p]) = None /\ atEntry[p].op = "chat") =>
      /\ httpResponse[p].code = HTTP_OK =>
           /\ ret[p].status = "success"
           /\ httpResponse[p].body = [status |-> "success", data |-> result[p]]
      /\ ret[p].status # "success" =>
           httpResponse[p] =
             error_response("Internal server error", HTTP_INTERNAL_SERVER_ERROR)

(* --------------------------- claims: the facade ----------------------- *)
\* Every caller went through get_client_instance and its operation.
AllServed ==
  \A p \in Callers : pc[p] = "returned" /\ atEntry[p].op # None

\* C6: once all the first-time callers have been served, whatever the
\* outcome of the connect attempts, connect_sse was called exactly once and
\* list_tools exactly once.
C6_OneOpenOneFetch ==
  AllServed => (sseCalls = 1 /\ listCalls = 1)

\* C7: at most one MCPClient is ever created and every get_client_instance
\* that returns, returns that one; a client is only created from a
\* connection_url, and a call that raised did so with ValueError, with no
\* singleton stored and the lock released.
C7_SingleInstance ==
  /\ instance <= 1
  /\ \A p \in Callers : client[p] # 0 => client[p] = 1
  /\ instance # 0 => CreationError(connection_url) = None
  /\ \A p \in Callers :
       ret[p].status = "raised" =>
         /\ ret[p].kind = "ValueError"
         /\ atRaise[p] = [instance |-> 0, lock |-> 0]

\* One caller raised for want of a url, and the other then created the
\* singleton and got it back.
C7_Witness ==
  \E p, q \in Callers :
    /\ p # q
    /\ ret[p] = Raised("ValueError", CreationError(None))
    /\ atRaise[p].instance = 0
    /\ client[q] = 1
    /\ pc[q] = "returned"

\* C8: when connect_sse failed (transport, session or initialize) in the
\* connect() of process_query or get_available_tools, the operation has
\* returned the failure object; the processor is not running on the empty
\* catalog and get_available_tools has not answered success.
C8_ChannelFailureSurfaced ==
  \A p \in Callers :
    (atEntry[p].op # None
       /\ connectResult[p].failed \in {"transport", "session", "initialize"}) =>
      /\ pc[p] = "returned"
      /\ ret[p].status = "error"

\* C9: after a connect() that returned False, whichever step failed, the
\* session is absent; and an operation entered after the connect() of
\* get_client_instance failed finds no session, hence connects again.
C9_FailedConnectDisconnects ==
  \A p \in Callers :
    /\ connectResult[p].value = "False" => session = 0
    /\ (atEntry[p].op # None /\ atEntry[p].created = "False") =>
         ~atEntry[p].connected

\* C10: a get_available_tools entered with the session set returns in that
\* step the cached catalog, without a connect_sse or a list_tools call and
\* leaving the cache as it is, and the catalog equals the one the previous
\* such call returned unless connect() stored a catalog in between; a
\* list_tools call is only ever made by a connect() past initialize.
C10_CachedCatalog ==
  [][ /\ \A p \in Callers :
           (pc[p] = "have_client" /\ session # 0 /\ atEntry'[p].op = "tools") =>
             /\ pc'[p] = "returned"
             /\ ret'[p] = ToolsSuccess(available_tools)
             /\ sseCalls' = sseCalls
             /\ listCalls' = listCalls
             /\ available_tools' = available_tools
             /\ (lastTools.writes = catalogWrites =>
                   ret'[p].tools = lastTools.tools)
      /\ listCalls' # listCalls =>
           \E p \in Callers : pc[p] = "sse_init" /\ pc'[p] = "list_tools"
    ]_vars

\* Two callers had the catalog from a set session, and with no connect()
\* storing a catalog in between both had the same, non-empty one.
C10_Witness ==
  \E p, q \in Callers :
    /\ p # q
    /\ pc[p] = "returned" /\ pc[q] = "returned"
    /\ atEntry[p] = [op |-> "tools", connected |-> TRUE, created |-> "True"]
    /\ atEntry[q].op = "tools" /\ atEntry[q].connected
    /\ catalogWrites = 1
    /\ ret[p] = ret[q]
    /\ ret[p].status = "success"
    /\ ret[p].tools # <<>>

(* ----------------------- claims: the shared state --------------------- *)
\* C19: every step that assigns connection.session or available_tools is a
\* step of the caller holding the creation lock, and once a connect() has
\* stored a catalog, neither is assigned again.
C19_WritesUnderLock ==
  [][ (session' # session \/ catalogWrites' # catalogWrites) =>
        /\ \E p \in Callers : lock = p /\ pc'[p] # pc[p]
        /\ catalogWrites = 0
    ]_vars

\* C20: a get_available_tools that answered, or a process_query that called
\* the processor, on finding connection.session set, did so with a catalog
\* fetched from the server (the server's catalogs are not empty), not with
\* the initial empty one.
C20_CatalogOfTheSession ==
  \A p \in Callers :
    /\ (atEntry[p].op = "tools" /\ atEntry[p].connected) => ret[p].tools # <<>>
    /\ (atEntry[p].op = "chat" /\ atEntry[p].connected) => tools[p] # <<>>

====
